---- MODULE Spec2Model ----
(***************************************************************************)
(* The Dump backend (src/The Dump/backend/main.py): upload, asynchronous   *)
(* OCR + indexing pipeline, status query and search, as a state machine.   *)
(*                                                                         *)
(* All handlers and the pipeline task run on one asyncio event loop.  A    *)
(* coroutine gives the loop back only at an `await`; the only `await` in   *)
(* the file is `await file.read()` in upload_document.  The pipeline       *)
(* coroutine calls the database, the OCR client and the search client      *)
(* synchronously, so from its first step to its last it holds the loop     *)
(* (variable `running`).                                                   *)
(***************************************************************************)
EXTENDS Integers, Sequences, FiniteSets, TLC

\* ---------------------------------------------------------------- bounds
\* number of document ids uuid4 hands out in a run
MaxDocs == 2

Ids == 1..MaxDocs

\* ------------------------------------------------------- ProcessingStatus
PENDING == "PENDING"
OCR_IN_PROGRESS == "OCR_IN_PROGRESS"
OCR_COMPLETED == "OCR_COMPLETED"
INDEXING_IN_PROGRESS == "INDEXING_IN_PROGRESS"
COMPLETED == "COMPLETED"
FAILED == "FAILED"

ProcessingStatus ==
  {PENDING, OCR_IN_PROGRESS, OCR_COMPLETED, INDEXING_IN_PROGRESS, COMPLETED, FAILED}

\* Python's None (Document.error_message is nullable and has no default)
None == "None"

\* ------------------------------------------------- what the outside returns
\* full_text_annotation.text of the OCR response; may be the empty string
Texts == {"", "invoice"}
\* the q parameter of GET /search
Queries == {"invoice"}
\* str(e) of the exceptions the three collaborators raise
DbErrors == {"db_error"}
OcrErrors == {"ocr_error"}
IndexErrors == {"index_error"}

\* the `e` of the pipeline's except clause: where it was raised, and str(e)
NoExc == [at |-> "none", msg |-> None]

VARIABLES
  bucket,      \* GCS_BUCKET_NAME is set
  nextId,      \* the next id uuid.uuid4() returns (fresh on every call)
  blobs,       \* ids whose file is in the bucket
  documents,   \* the documents table: id -> [status, error_message]
  index,       \* the Elasticsearch index: records [id, document_id, content]
  upl,         \* per upload request: [state, failed]
  pc,          \* per id: position of its pipeline task
  running,     \* the task that holds the event loop ({} when the loop is free)
  exc,         \* per pipeline: the exception caught by `except Exception as e`
  full_text,   \* per pipeline: the local full_text
  invoked,     \* per id: number of asyncio.create_task calls for it
  hist,        \* per id: the status values committed to its row, in order
  observable,  \* per id: the status values its row held while the loop was free
  resp         \* the response of the request handled in the last step, if any

vars == <<bucket, nextId, blobs, documents, index, upl, pc, running, exc,
          full_text, invoked, hist, observable, resp>>

NoResp == [kind |-> "none"]

\* the UPDATE without its WHERE document_id = d: every row gets the status
SetStatus_every_row(d, s, m) ==
  [k \in DOMAIN documents |-> [status |-> s, error_message |-> m]]

\* the row of d after a commit of status s (and error message m)
SetStatus(d, s, m) ==
  [documents EXCEPT ![d] = [status |-> s, error_message |-> m]]

\* what a request served at the next free moment of the loop can read
Observe(docs, run) ==
  [d \in Ids |->
     observable[d] \cup
       (IF run = {} /\ d \in DOMAIN docs THEN {docs[d].status} ELSE {})]

Init ==
  /\ bucket \in BOOLEAN
  /\ nextId = 1
  /\ blobs = {}
  /\ documents = << >>
  /\ index = {}
  /\ upl = [d \in Ids |-> [state |-> "none", failed |-> "none"]]
  /\ pc = [d \in Ids |-> "none"]
  /\ running = {}
  /\ exc = [d \in Ids |-> NoExc]
  /\ full_text = [d \in Ids |-> None]
  /\ invoked = [d \in Ids |-> 0]
  /\ hist = [d \in Ids |-> << >>]
  /\ observable = [d \in Ids |-> {}]
  /\ resp = NoResp


\* ------------------------------------------------------------ POST /upload
\* upload_document with GCS_BUCKET_NAME unset: refused before anything happens
upload_refused ==
  /\ running = {}
  /\ ~bucket
  /\ resp' = [kind |-> "upload", code |-> 500]
  /\ observable' = Observe(documents, running)
  /\ UNCHANGED <<bucket, nextId, blobs, documents, index, upl, pc, running,
                 exc, full_text, invoked, hist>>

\* upload_document up to its only suspension point: the id is generated,
\* the blob handle is built, and the handler awaits file.read()
upload_read(d) ==
  /\ running = {}
  /\ bucket
  /\ d = nextId
  /\ upl[d].state = "none"
  /\ nextId' = nextId + 1
  /\ upl' = [upl EXCEPT ![d].state = "reading"]
  /\ observable' = Observe(documents, running)
  /\ resp' = NoResp
  /\ UNCHANGED <<bucket, blobs, documents, index, pc, running, exc, full_text,
                 invoked, hist>>

\* upload_document from the resumption after file.read() to its return.
\* outcome names the first call that raises: "blob" the upload to the bucket
\* (or the read itself), "insert" the add + commit of the row, "refresh" the
\* refresh after the commit, "ok" none.

\* a compensating delete of the blob when the insert fails
BlobStored_cleanup(outcome) == outcome \in {"refresh", "ok"}
\* the blob is in the bucket once upload_from_string returned
BlobStored(outcome) == outcome # "blob"

\* the first except clause without its raise: the handler goes on to the insert
RowInserted_after_blob_error(outcome) == outcome \in {"blob", "refresh", "ok"}
\* the row is committed when neither the upload nor add + commit raised
RowInserted(outcome) == outcome \in {"refresh", "ok"}

\* the second except clause without its raise: create_task is reached anyway
TaskCreated_after_insert_error(outcome) == outcome \in {"insert", "ok"}
\* asyncio.create_task is reached only when nothing raised
TaskCreated(outcome) == outcome = "ok"

\* HTTPException(500, "Erro ao carregar para GCS"), HTTPException(500, "Erro
\* ao guardar metadados"), or the 200 response with the document_id
UploadResponse(outcome) ==
  CASE outcome = "blob" -> "UploadError"
    [] outcome = "insert" -> "MetadataError"
    [] outcome = "refresh" -> "MetadataError"
    [] outcome = "ok" -> "ok"

\* `await process_document_pipeline(...)` in place of create_task: the handler
\* returns when the pipeline has run
upload_document_awaiting(d) ==
  /\ running = {}
  /\ upl[d].state = "reading"
  /\ \E outcome \in {"blob", "insert", "refresh", "ok"} :
       /\ RowInserted(outcome) => d \notin DOMAIN documents
       /\ blobs' = IF BlobStored(outcome) THEN blobs \cup {d} ELSE blobs
       /\ documents' =
            IF RowInserted(outcome)
            THEN documents @@
                   (d :> [status |-> IF TaskCreated(outcome)
                                     THEN COMPLETED ELSE PENDING,
                          error_message |-> None])
            ELSE documents
       /\ hist' = IF RowInserted(outcome)
                  THEN [hist EXCEPT ![d] =
                          IF TaskCreated(outcome)
                          THEN <<PENDING, OCR_IN_PROGRESS, OCR_COMPLETED,
                                 INDEXING_IN_PROGRESS, COMPLETED>>
                          ELSE <<PENDING>>]
                  ELSE hist
       /\ pc' = IF TaskCreated(outcome)
                THEN [pc EXCEPT ![d] = "done"]
                ELSE pc
       /\ invoked' = IF TaskCreated(outcome)
                     THEN [invoked EXCEPT ![d] = @ + 1]
                     ELSE invoked
       /\ upl' = [upl EXCEPT ![d] =
                    [state |-> UploadResponse(outcome),
                     failed |-> IF outcome = "ok" THEN "none" ELSE outcome]]
  /\ observable' = Observe(documents', running)
  /\ resp' = NoResp
  /\ UNCHANGED <<bucket, nextId, index, running, exc, full_text>>

upload_document(d) ==
  /\ running = {}
  /\ upl[d].state = "reading"
  /\ \E outcome \in {"blob", "insert", "refresh", "ok"} :
       \* the primary key refuses a second row with the same id
       /\ RowInserted(outcome) => d \notin DOMAIN documents
       /\ blobs' = IF BlobStored(outcome) THEN blobs \cup {d} ELSE blobs
       /\ documents' =
            IF RowInserted(outcome)
            THEN documents @@ (d :> [status |-> PENDING, error_message |-> None])
            ELSE documents
       /\ hist' = IF RowInserted(outcome)
                  THEN [hist EXCEPT ![d] = <<PENDING>>]
                  ELSE hist
       /\ pc' = IF TaskCreated(outcome)
                THEN [pc EXCEPT ![d] = "scheduled"]
                ELSE pc
       /\ invoked' = IF TaskCreated(outcome)
                     THEN [invoked EXCEPT ![d] = @ + 1]
                     ELSE invoked
       /\ upl' = [upl EXCEPT ![d] =
                    [state |-> UploadResponse(outcome),
                     failed |-> IF outcome = "ok" THEN "none" ELSE outcome]]
  /\ observable' = Observe(documents', running)
  /\ resp' = NoResp
  /\ UNCHANGED <<bucket, nextId, index, running, exc, full_text>>

\* ------------------------------------------------ process_document_pipeline
\* `raise` inside the try block: control goes to the except clause with e
Raise(d, where, m) ==
  /\ pc' = [pc EXCEPT ![d] = "handler"]
  /\ exc' = [exc EXCEPT ![d] = [at |-> where, msg |-> m]]

\* doc.status = s without the commit: the row keeps its old status
Commit_missing(d, s, next) ==
  /\ pc' = [pc EXCEPT ![d] = next]
  /\ UNCHANGED <<documents, hist, exc>>

\* doc.status = s; db_session.commit() succeeding, then on to position next
\* (the UPDATE of a row that is no longer there raises instead)
Commit(d, s, next) ==
  /\ d \in DOMAIN documents
  /\ documents' = SetStatus(d, s, documents[d].error_message)
  /\ hist' = [hist EXCEPT ![d] = Append(@, s)]
  /\ pc' = [pc EXCEPT ![d] = next]
  /\ UNCHANGED exc

\* type(e).__name__ in place of str(e)
str_type_name(e) == e.at
\* str(e): the message of the exception
str(e) == e.msg

\* the load without `if not doc: return`: the pipeline goes on with doc = None
pipeline_load_unchecked(d) ==
  /\ running = {}
  /\ pc[d] = "scheduled"
  /\ \/ /\ \E m \in DbErrors : Raise(d, "load", m)
        /\ running' = {d}
     \/ /\ pc' = [pc EXCEPT ![d] = "begin_ocr"]
        /\ running' = {d}
        /\ UNCHANGED exc
  /\ observable' = Observe(documents, running')
  /\ resp' = NoResp
  /\ UNCHANGED <<bucket, nextId, blobs, documents, index, upl, full_text,
                 invoked, hist>>

\* the task's first step: open the session and load the row
pipeline_load(d) ==
  /\ running = {}
  /\ pc[d] = "scheduled"
  /\ \/ /\ \E m \in DbErrors : Raise(d, "load", m)
        /\ running' = {d}
     \/ /\ d \in DOMAIN documents
        /\ pc' = [pc EXCEPT ![d] = "begin_ocr"]
        /\ running' = {d}
        /\ UNCHANGED exc
     \/ /\ d \notin DOMAIN documents
        /\ pc' = [pc EXCEPT ![d] = "aborted"]
        /\ running' = {}
        /\ UNCHANGED exc
  /\ observable' = Observe(documents, running')
  /\ resp' = NoResp
  /\ UNCHANGED <<bucket, nextId, blobs, documents, index, upl, full_text,
                 invoked, hist>>

\* doc.status = OCR_IN_PROGRESS; commit
pipeline_begin_ocr(d) ==
  /\ running = {d}
  /\ pc[d] = "begin_ocr"
  /\ \/ Commit(d, OCR_IN_PROGRESS, "ocr")
     \/ /\ \E m \in DbErrors : Raise(d, "commit", m)
        /\ UNCHANGED <<documents, hist>>
  /\ observable' = Observe(documents', running)
  /\ resp' = NoResp
  /\ UNCHANGED <<bucket, nextId, blobs, index, upl, running, full_text,
                 invoked>>

\* the OCR call wrapped in its own try that logs the error and goes on with
\* an empty text
pipeline_ocr_swallowing(d) ==
  /\ running = {d}
  /\ pc[d] = "ocr"
  /\ \/ /\ \E t \in Texts : full_text' = [full_text EXCEPT ![d] = t]
        /\ pc' = [pc EXCEPT ![d] = "ocr_completed"]
        /\ UNCHANGED exc
     \/ /\ \E m \in OcrErrors : exc' = [exc EXCEPT ![d] = [at |-> "ocr", msg |-> m]]
        /\ full_text' = [full_text EXCEPT ![d] = ""]
        /\ pc' = [pc EXCEPT ![d] = "ocr_completed"]
  /\ observable' = Observe(documents, running)
  /\ resp' = NoResp
  /\ UNCHANGED <<bucket, nextId, blobs, documents, index, upl, running,
                 invoked, hist>>

\* VISION_CLIENT.annotate_image(...); full_text = response...text
pipeline_ocr(d) ==
  /\ running = {d}
  /\ pc[d] = "ocr"
  /\ \/ /\ \E t \in Texts : full_text' = [full_text EXCEPT ![d] = t]
        /\ pc' = [pc EXCEPT ![d] = "ocr_completed"]
        /\ UNCHANGED exc
     \/ /\ \E m \in OcrErrors : Raise(d, "ocr", m)
        /\ UNCHANGED full_text
  /\ observable' = Observe(documents, running)
  /\ resp' = NoResp
  /\ UNCHANGED <<bucket, nextId, blobs, documents, index, upl, running,
                 invoked, hist>>

\* doc.status = OCR_COMPLETED; commit
pipeline_ocr_completed(d) ==
  /\ running = {d}
  /\ pc[d] = "ocr_completed"
  /\ \/ Commit(d, OCR_COMPLETED, "begin_index")
     \/ /\ \E m \in DbErrors : Raise(d, "commit", m)
        /\ UNCHANGED <<documents, hist>>
  /\ observable' = Observe(documents', running)
  /\ resp' = NoResp
  /\ UNCHANGED <<bucket, nextId, blobs, index, upl, running, full_text,
                 invoked>>

\* the commit before indexing writing OCR_IN_PROGRESS again
pipeline_begin_index_wrong_status(d) ==
  /\ running = {d}
  /\ pc[d] = "begin_index"
  /\ \/ Commit(d, OCR_IN_PROGRESS, "index")
     \/ /\ \E m \in DbErrors : Raise(d, "commit", m)
        /\ UNCHANGED <<documents, hist>>
  /\ observable' = Observe(documents', running)
  /\ resp' = NoResp
  /\ UNCHANGED <<bucket, nextId, blobs, index, upl, running, full_text,
                 invoked>>

\* doc.status = INDEXING_IN_PROGRESS; commit
pipeline_begin_index(d) ==
  /\ running = {d}
  /\ pc[d] = "begin_index"
  /\ \/ Commit(d, INDEXING_IN_PROGRESS, "index")
     \/ /\ \E m \in DbErrors : Raise(d, "commit", m)
        /\ UNCHANGED <<documents, hist>>
  /\ observable' = Observe(documents', running)
  /\ resp' = NoResp
  /\ UNCHANGED <<bucket, nextId, blobs, index, upl, running, full_text,
                 invoked>>

\* es_document with the filename in place of the OCR text
es_document_without_text(d, text) == [document_id |-> d, content |-> ""]
\* es_document = {"document_id": ..., "content": full_text, ...}
es_document(d, text) == [document_id |-> d, content |-> text]

\* ES_CLIENT.index without id=: Elasticsearch gives every call a new _id
EsIndex_without_id(idx, id, document) ==
  idx \cup {[id |-> MaxDocs + 1 + Cardinality(idx),
             document_id |-> document.document_id,
             content |-> document.content]}
\* ES_CLIENT.index(index=ELASTIC_INDEX, id=id, document=document): the record
\* stored under _id = id is created, or replaced when there is one
EsIndex(idx, id, document) ==
  {r \in idx : r.id # id} \cup
    {[id |-> id, document_id |-> document.document_id,
      content |-> document.content]}

\* build es_document (doc.uploaded_at is reloaded: the commit expired it) and
\* ES_CLIENT.index(index=ELASTIC_INDEX, id=str(document_id), ...)
pipeline_index(d) ==
  /\ running = {d}
  /\ pc[d] = "index"
  /\ \/ /\ index' = EsIndex(index, d, es_document(d, full_text[d]))
        /\ pc' = [pc EXCEPT ![d] = "finish"]
        /\ UNCHANGED exc
     \/ /\ \E m \in DbErrors : Raise(d, "reload", m)
        /\ UNCHANGED index
     \/ /\ \E m \in IndexErrors : Raise(d, "index", m)
        /\ UNCHANGED index
  /\ observable' = Observe(documents, running)
  /\ resp' = NoResp
  /\ UNCHANGED <<bucket, nextId, blobs, documents, upl, running, full_text,
                 invoked, hist>>

\* doc.status = COMPLETED; commit; the coroutine returns (finally: close)
pipeline_finish(d) ==
  /\ running = {d}
  /\ pc[d] = "finish"
  /\ \/ /\ Commit(d, COMPLETED, "done")
        /\ running' = {}
     \/ /\ \E m \in DbErrors : Raise(d, "commit", m)
        /\ UNCHANGED <<documents, hist, running>>
  /\ observable' = Observe(documents', running')
  /\ resp' = NoResp
  /\ UNCHANGED <<bucket, nextId, blobs, index, upl, full_text, invoked>>

\* the except clause without `doc.status = FAILED`: only the message is stored
pipeline_except_message_only(d) ==
  /\ running = {d}
  /\ pc[d] = "handler"
  /\ \/ /\ exc[d].at # "load"
        /\ d \in DOMAIN documents
        /\ documents' = SetStatus(d, documents[d].status, str(exc[d]))
        /\ hist' = hist
        /\ pc' = [pc EXCEPT ![d] = "done"]
     \/ /\ pc' = [pc EXCEPT ![d] = "crashed"]
        /\ UNCHANGED <<documents, hist>>
  /\ running' = {}
  /\ observable' = Observe(documents', running')
  /\ resp' = NoResp
  /\ UNCHANGED <<bucket, nextId, blobs, index, upl, exc, full_text, invoked>>

\* the except clause compensating: it deletes the index record of the document
pipeline_except_compensating(d) ==
  /\ running = {d}
  /\ pc[d] = "handler"
  /\ \/ /\ exc[d].at # "load"
        /\ d \in DOMAIN documents
        /\ documents' = SetStatus(d, FAILED, str(exc[d]))
        /\ hist' = [hist EXCEPT ![d] = Append(@, FAILED)]
        /\ pc' = [pc EXCEPT ![d] = "done"]
     \/ /\ pc' = [pc EXCEPT ![d] = "crashed"]
        /\ UNCHANGED <<documents, hist>>
  /\ index' = {r \in index : r.document_id # d}
  /\ running' = {}
  /\ observable' = Observe(documents', running')
  /\ resp' = NoResp
  /\ UNCHANGED <<bucket, nextId, blobs, upl, exc, full_text, invoked>>

\* the except clause scheduling the pipeline again after recording the failure
pipeline_except_retrying(d) ==
  /\ running = {d}
  /\ pc[d] = "handler"
  /\ \/ /\ exc[d].at # "load"
        /\ d \in DOMAIN documents
        /\ documents' = SetStatus(d, FAILED, str(exc[d]))
        /\ hist' = [hist EXCEPT ![d] = Append(@, FAILED)]
        /\ pc' = [pc EXCEPT ![d] = "scheduled"]
     \/ /\ pc' = [pc EXCEPT ![d] = "crashed"]
        /\ UNCHANGED <<documents, hist>>
  /\ running' = {}
  /\ observable' = Observe(documents', running')
  /\ resp' = NoResp
  /\ UNCHANGED <<bucket, nextId, blobs, index, upl, exc, full_text, invoked>>

\* except Exception as e: rollback; doc.status = FAILED;
\* doc.error_message = str(e); commit; finally: close.
\* When the query of pipeline_load raised, `doc` was never bound, and
\* `doc.status = ...` raises UnboundLocalError out of the handler; a rollback
\* or commit that raises leaves the handler the same way.
pipeline_except(d) ==
  /\ running = {d}
  /\ pc[d] = "handler"
  /\ \/ /\ exc[d].at # "load"
        /\ d \in DOMAIN documents
        /\ documents' = SetStatus(d, FAILED, str(exc[d]))
        /\ hist' = [hist EXCEPT ![d] = Append(@, FAILED)]
        /\ pc' = [pc EXCEPT ![d] = "done"]
     \/ /\ pc' = [pc EXCEPT ![d] = "crashed"]
        /\ UNCHANGED <<documents, hist>>
  /\ running' = {}
  /\ observable' = Observe(documents', running')
  /\ resp' = NoResp
  /\ UNCHANGED <<bucket, nextId, blobs, index, upl, exc, full_text, invoked>>

\* ------------------------------------------------- GET /status/{document_id}
\* the response built without the error_message column
StatusResponse_without_error(d, failed) ==
  IF failed # "none"
  THEN [kind |-> "status", code |-> 500, document_id |-> d, failed |-> failed]
  ELSE IF d \in DOMAIN documents
  THEN [kind |-> "status", code |-> 200, document_id |-> d, failed |-> failed,
        status |-> documents[d].status,
        error_message |-> None]
  ELSE [kind |-> "status", code |-> 404, document_id |-> d, failed |-> failed]

\* the response of get_status; failed names the call that raised ("query":
\* the exception is not caught and the framework answers 500) or "none"
StatusResponse(d, failed) ==
  IF failed # "none"
  THEN [kind |-> "status", code |-> 500, document_id |-> d, failed |-> failed]
  ELSE IF d \in DOMAIN documents
  THEN [kind |-> "status", code |-> 200, document_id |-> d, failed |-> failed,
        status |-> documents[d].status,
        error_message |-> documents[d].error_message]
  ELSE [kind |-> "status", code |-> 404, document_id |-> d, failed |-> failed]

get_status(d) ==
  /\ running = {}
  /\ \E failed \in {"none", "query"} : resp' = StatusResponse(d, failed)
  /\ observable' = Observe(documents, running)
  /\ UNCHANGED <<bucket, nextId, blobs, documents, index, upl, pc, running,
                 exc, full_text, invoked, hist>>

\* --------------------------------------------------------------- GET /search
\* the match query on the content field, reduced to whole-text equality
Matches(q, content) == content # "" /\ content = q

\* res['hits']['hits']
Hits(q) == {r \in index : Matches(q, r.content)}

\* doc_metadata.status if doc_metadata else 'DESCONHECIDO'
HitStatus(d) ==
  IF d \in DOMAIN documents THEN documents[d].status ELSE "DESCONHECIDO"

\* the response of search_documents; failed names the call that raised
\* ("search": ES_CLIENT.search, "query": the metadata query of a hit; both are
\* caught and answered 500) or "none"
SearchResponse(q, failed) ==
  IF failed # "none"
  THEN [kind |-> "search", code |-> 500, q |-> q, failed |-> failed]
  ELSE [kind |-> "search", code |-> 200, q |-> q, failed |-> failed,
        results |->
          {[document_id |-> r.document_id,
            status |-> HitStatus(r.document_id)] : r \in Hits(q)}]

\* `doc_metadata.status` without the `if doc_metadata`: a hit without a row
\* raises AttributeError, which the except clause answers with 500
search_documents_strict(q) ==
  /\ running = {}
  /\ \E failed \in {"none", "search", "query"} :
       /\ failed = "query" => Hits(q) # {}
       /\ resp' = IF /\ failed = "none"
                     /\ \E r \in Hits(q) : r.document_id \notin DOMAIN documents
                  THEN [kind |-> "search", code |-> 500, q |-> q,
                        failed |-> failed]
                  ELSE SearchResponse(q, failed)
  /\ observable' = Observe(documents, running)
  /\ UNCHANGED <<bucket, nextId, blobs, documents, index, upl, pc, running,
                 exc, full_text, invoked, hist>>

search_documents(q) ==
  /\ running = {}
  /\ \E failed \in {"none", "search", "query"} :
       \* the metadata query runs once per hit
       /\ failed = "query" => Hits(q) # {}
       /\ resp' = SearchResponse(q, failed)
  /\ observable' = Observe(documents, running)
  /\ UNCHANGED <<bucket, nextId, blobs, documents, index, upl, pc, running,
                 exc, full_text, invoked, hist>>

\* ------------------------------------------------------------ specification
Next ==
  \/ upload_refused
  \/ \E d \in Ids : upload_read(d)
  \/ \E d \in Ids : upload_document(d)
  \/ \E d \in Ids : pipeline_load(d)
  \/ \E d \in Ids : pipeline_begin_ocr(d)
  \/ \E d \in Ids : pipeline_ocr(d)
  \/ \E d \in Ids : pipeline_ocr_completed(d)
  \/ \E d \in Ids : pipeline_begin_index(d)
  \/ \E d \in Ids : pipeline_index(d)
  \/ \E d \in Ids : pipeline_finish(d)
  \/ \E d \in Ids : pipeline_except(d)
  \/ \E d \in Ids : get_status(d)
  \/ \E q \in Queries : search_documents(q)

Spec == Init /\ [][Next]_vars

\* ------------------------------------------- the stores, acted on from outside
\* The table and the index are separate durable stores that other clients
\* reach too.  The program never deletes a row and indexes an id once; the
\* branches `if not doc` (pipeline, search) and the id= of ES_CLIENT.index
\* only matter when something outside does one of the following.

\* a row removed from the documents table by another client of the database,
\* taking effect between two turns of the event loop
row_deleted(d) ==
  /\ running = {}
  /\ d \in DOMAIN documents
  /\ documents' = [k \in DOMAIN documents \ {d} |-> documents[k]]
  /\ observable' = Observe(documents', running)
  /\ resp' = NoResp
  /\ UNCHANGED <<bucket, nextId, blobs, index, upl, pc, running, exc,
                 full_text, invoked, hist>>

NextDeleted ==
  \/ Next
  \/ \E d \in Ids : row_deleted(d)

SpecDeleted == Init /\ [][NextDeleted]_vars

\* the index call of a document already indexed, made again with the text of
\* a new OCR run (a retry of the indexing step)
reindex(d, t) ==
  /\ running = {}
  /\ \E r \in index : r.document_id = d
  /\ index' = EsIndex(index, d, es_document(d, t))
  /\ observable' = Observe(documents, running)
  /\ resp' = NoResp
  /\ UNCHANGED <<bucket, nextId, blobs, documents, upl, pc, running, exc,
                 full_text, invoked, hist>>

NextReindexed ==
  \/ Next
  \/ \E d \in Ids, t \in Texts : reindex(d, t)

SpecReindexed == Init /\ [][NextReindexed]_vars

TypeOK ==
  /\ bucket \in BOOLEAN
  /\ nextId \in 1..(MaxDocs + 1)
  /\ blobs \subseteq Ids
  /\ DOMAIN documents \subseteq Ids
  /\ \A d \in DOMAIN documents :
       /\ documents[d].status \in ProcessingStatus
       /\ documents[d].error_message \in
            {None} \cup DbErrors \cup OcrErrors \cup IndexErrors
  /\ \A r \in index : r.document_id \in Ids /\ r.content \in Texts
  /\ running \subseteq Ids /\ Cardinality(running) <= 1
  /\ \A d \in Ids : pc[d] \in {"none", "scheduled", "begin_ocr", "ocr",
                                "ocr_completed", "begin_index", "index",
                                "finish", "handler", "done", "crashed",
                                "aborted"}


\* ------------------------------------------------------------------ claims
Path == <<PENDING, OCR_IN_PROGRESS, OCR_COMPLETED, INDEXING_IN_PROGRESS, COMPLETED>>

Intermediate == {OCR_IN_PROGRESS, OCR_COMPLETED, INDEXING_IN_PROGRESS}

\* the pipeline task of d has ended (returned or raised)
Ended(d) == pc[d] \in {"done", "crashed", "aborted"}

\* C1: for a document whose pipeline met no failure, the status values
\* committed to its row are a prefix of PENDING, OCR_IN_PROGRESS,
\* OCR_COMPLETED, INDEXING_IN_PROGRESS, COMPLETED at every moment, and the
\* whole of it once the pipeline has returned: nothing skipped, nothing twice.
C1_SuccessPath ==
  \A d \in DOMAIN documents :
    exc[d] = NoExc =>
      /\ Len(hist[d]) <= Len(Path)
      /\ hist[d] = SubSeq(Path, 1, Len(hist[d]))
      /\ documents[d].status = hist[d][Len(hist[d])]
      /\ pc[d] = "done" => hist[d] = Path

C1_Witness ==
  \E d \in DOMAIN documents :
    pc[d] = "done" /\ exc[d] = NoExc /\ hist[d] = Path

\* C2: every pipeline in which a step failed (a read or a write of the row,
\* the OCR call, the index call) ends with the row in status FAILED and a
\* non-empty error_message.
C2_FailureEndsFailed ==
  \A d \in Ids :
    (Ended(d) /\ exc[d] # NoExc) =>
      /\ d \in DOMAIN documents
      /\ documents[d].status = FAILED
      /\ documents[d].error_message \notin {None, ""}

\* C3: once the row of a document holds FAILED, no step of the system changes
\* its status, and its pipeline is neither scheduled nor run again.
C3_FailedIsTerminal ==
  [][\A d \in DOMAIN documents :
       documents[d].status = FAILED =>
         /\ d \in DOMAIN documents'
         /\ documents'[d].status = FAILED
         /\ pc'[d] = pc[d]
         /\ invoked'[d] = invoked[d]]_vars

C3_Witness ==
  \E d \in DOMAIN documents, o \in DOMAIN documents :
    /\ documents[d].status = FAILED
    /\ o # d /\ documents[o].status = COMPLETED
    /\ resp = [kind |-> "status", code |-> 200, document_id |-> d,
               failed |-> "none", status |-> FAILED,
               error_message |-> documents[d].error_message]

\* C4: each of OCR_IN_PROGRESS, OCR_COMPLETED, INDEXING_IN_PROGRESS of a
\* successful pipeline is held by the row at a moment when the event loop can
\* serve a GET /status for the document.
C4_IntermediateObservable ==
  \A d \in DOMAIN documents :
    (pc[d] = "done" /\ exc[d] = NoExc) => Intermediate \subseteq observable[d]

\* C5: the upload handler returns its success response with the row still
\* PENDING and the pipeline only scheduled, and the response, once given,
\* stays what it is whatever the pipeline does later.
C5_SubmitDoesNotWait ==
  [][\A d \in Ids :
       /\ (upl[d].state = "reading" /\ upl'[d].state = "ok") =>
            /\ d \in DOMAIN documents'
            /\ documents'[d].status = PENDING
            /\ pc'[d] = "scheduled"
            /\ running' = {}
       /\ upl[d].state = "ok" => upl'[d].state = "ok"]_vars

C5_Witness ==
  \E d \in DOMAIN documents, o \in DOMAIN documents :
    /\ upl[d].state = "ok" /\ documents[d].status = FAILED
    /\ upl[o].state = "ok" /\ documents[o].status = COMPLETED

\* C6: when the blob upload of a submit fails, the request gets the upload
\* error, no row exists for the generated id and no pipeline was scheduled.
C6_BlobFailureStops ==
  \A d \in Ids :
    upl[d].failed = "blob" =>
      /\ upl[d].state = "UploadError"
      /\ d \notin DOMAIN documents
      /\ invoked[d] = 0
      /\ pc[d] = "none"

C6_Witness ==
  \E d \in Ids :
    /\ upl[d].failed = "blob"
    /\ resp = [kind |-> "status", code |-> 404, document_id |-> d,
               failed |-> "none"]

\* C7: when the insert of the row fails after the blob was uploaded, the
\* request gets the metadata error, no row exists for the id, no pipeline was
\* scheduled, and the blob stays in the bucket.
C7_InsertFailureOrphansBlob ==
  \A d \in Ids :
    upl[d].failed = "insert" =>
      /\ upl[d].state = "MetadataError"
      /\ d \notin DOMAIN documents
      /\ invoked[d] = 0
      /\ pc[d] = "none"
      /\ d \in blobs

C7_Witness ==
  \E d \in Ids, o \in DOMAIN documents :
    /\ upl[d].failed = "insert" /\ d \in blobs
    /\ documents[o].status = COMPLETED

\* C8: the pipeline of a document id is invoked at most once, only after the
\* row of the id was created in PENDING (and it is still PENDING while the
\* task waits to start), and at most one pipeline holds the loop at a time.
C8_InvokedOnceAfterCreate ==
  /\ Cardinality(running) <= 1
  /\ \A d \in Ids :
       /\ invoked[d] <= 1
       /\ pc[d] # "none" => invoked[d] = 1
       /\ invoked[d] = 1 =>
            /\ d \in DOMAIN documents
            /\ hist[d][1] = PENDING
            /\ upl[d].state = "ok"
       /\ pc[d] = "scheduled" => documents[d].status = PENDING

C8_Witness ==
  \E d \in Ids, o \in Ids :
    /\ d # o
    /\ pc[d] = "scheduled" /\ invoked[d] = 1
    /\ pc[o] = "scheduled" /\ invoked[o] = 1

\* C9: a document whose OCR call raised has no record in the search index,
\* and no search response lists it.
C9_OcrFailureNeverIndexed ==
  \A d \in Ids :
    exc[d].at = "ocr" =>
      /\ \A r \in index : r.document_id # d
      /\ (resp.kind = "search" /\ resp.code = 200) =>
           \A r \in resp.results : r.document_id # d

C9_Witness ==
  \E d \in DOMAIN documents :
    /\ exc[d].at = "ocr" /\ documents[d].status = FAILED
    /\ resp.kind = "search" /\ resp.code = 200 /\ resp.results # {}

\* C10: the error_message stored with FAILED is the message of the exception
\* the except clause caught: the OCR failure description when the OCR call
\* raised, the index failure description when the index call raised.
C10_ErrorMessageVerbatim ==
  \A d \in DOMAIN documents :
    documents[d].status = FAILED =>
      /\ exc[d] # NoExc
      /\ documents[d].error_message = exc[d].msg
      /\ exc[d].at = "ocr" => documents[d].error_message \in OcrErrors
      /\ exc[d].at = "index" => documents[d].error_message \in IndexErrors

C10_Witness ==
  \E d \in DOMAIN documents :
    /\ documents[d].status = FAILED
    /\ exc[d].at = "ocr"
    /\ documents[d].error_message = "ocr_error"

\* the entry of a search response for the index record r, the status of a hit
\* without a row being shown as `unknown`
ResultOf(r, unknown) ==
  [document_id |-> r.document_id,
   status |-> IF r.document_id \in DOMAIN documents
              THEN documents[r.document_id].status
              ELSE unknown]

\* C11 (as claimed): a search in which no call raised answers 200 with one
\* entry per hit, a hit whose id has no row being listed with status UNKNOWN.
C11_MissingRowUnknown ==
  (resp.kind = "search" /\ resp.failed = "none") =>
    /\ resp.code = 200
    /\ resp.results = {ResultOf(r, "UNKNOWN") : r \in Hits(resp.q)}

\* C11 (amended): a search in which no call raised answers 200 with one entry
\* per hit, a hit whose id has no row being listed with status DESCONHECIDO.
C11_MissingRowDesconhecido ==
  (resp.kind = "search" /\ resp.failed = "none") =>
    /\ resp.code = 200
    /\ resp.results = {ResultOf(r, "DESCONHECIDO") : r \in Hits(resp.q)}

C11_Witness ==
  /\ resp.kind = "search" /\ resp.code = 200
  /\ \E x \in resp.results, y \in resp.results :
       /\ x.document_id \notin DOMAIN documents /\ x.status = "DESCONHECIDO"
       /\ y.document_id \in DOMAIN documents /\ y.status = COMPLETED

\* the records the index idx holds for the document id d
RecordsOf(idx, d) == {r \in idx : r.document_id = d}

\* C12: the index holds at most one record per document_id, and indexing an
\* id (again) leaves exactly the submitted record for it, the records of the
\* other ids untouched, and is without further effect when repeated.
C12_IdempotentUpsert ==
  /\ \A d \in Ids : Cardinality(RecordsOf(index, d)) <= 1
  /\ \A d \in Ids, t \in Texts :
       LET once == EsIndex(index, d, es_document(d, t)) IN
         /\ RecordsOf(once, d) = {[id |-> d, document_id |-> d, content |-> t]}
         /\ once \ RecordsOf(once, d) = index \ RecordsOf(index, d)
         /\ EsIndex(once, d, es_document(d, t)) = once

\* a document indexed by its pipeline and indexed again with another text
C12_Witness ==
  \E d \in Ids :
    /\ pc[d] = "done" /\ full_text[d] = "invoice"
    /\ RecordsOf(index, d) = {[id |-> d, document_id |-> d, content |-> ""]}

\* C13: a status query whose database query did not raise answers 404 when
\* the id has no row and otherwise 200 with the status and error_message the
\* row holds, and the step that answers changes nothing but the response.
C13_StatusQueryExact ==
  [][resp'.kind = "status" =>
       /\ UNCHANGED <<bucket, nextId, blobs, documents, index, upl, pc,
                      running, exc, full_text, invoked, hist, observable>>
       /\ resp'.failed = "none" =>
            IF resp'.document_id \in DOMAIN documents
            THEN /\ resp'.code = 200
                 /\ resp'.status = documents[resp'.document_id].status
                 /\ resp'.error_message =
                      documents[resp'.document_id].error_message
            ELSE resp'.code = 404]_vars

C13_Witness ==
  /\ resp.kind = "status" /\ resp.code = 200
  /\ resp.status = FAILED /\ resp.error_message \in IndexErrors
  /\ \E o \in Ids : o \notin DOMAIN documents

\* the status that follows s on the path
Follows(s, t) == \E i \in 1..(Len(Path) - 1) : Path[i] = s /\ Path[i + 1] = t

\* the statuses of a document whose pipeline has not come to an end
NonTerminal == {PENDING} \cup Intermediate

\* C14: a row is created in PENDING, and every change of its status is a step
\* to the next status of the path or a step from a status before COMPLETED to
\* FAILED; the status a failed commit did not write is never seen, and no
\* step moves a row backwards.
C14_ForwardOnly ==
  [][\A d \in DOMAIN documents' :
       IF d \in DOMAIN documents
       THEN \/ documents'[d].status = documents[d].status
            \/ Follows(documents[d].status, documents'[d].status)
            \/ /\ documents[d].status \in NonTerminal
               /\ documents'[d].status = FAILED
       ELSE documents'[d].status = PENDING]_vars

C14_Witness ==
  \E d \in DOMAIN documents :
    /\ exc[d].at = "commit"
    /\ hist[d] = <<PENDING, OCR_IN_PROGRESS, OCR_COMPLETED, FAILED>>

\* C15: the error_message of a row is set only when its status is FAILED; a
\* row in any other status, COMPLETED in particular, has none.
C15_ErrorMessageOnlyWhenFailed ==
  \A d \in DOMAIN documents :
    /\ documents[d].error_message # None => documents[d].status = FAILED
    /\ documents[d].status = COMPLETED => documents[d].error_message = None

C15_Witness ==
  \E d \in DOMAIN documents, o \in DOMAIN documents :
    /\ documents[d].status = FAILED /\ documents[d].error_message \in DbErrors
    /\ documents[o].status = COMPLETED /\ documents[o].error_message = None

\* the row the table docs holds for the id o, if any
RowOf(docs, o) == IF o \in DOMAIN docs THEN {docs[o]} ELSE {}

\* C16: a step of the pipeline of a document leaves the row and the index
\* record of every other document as they were, whether the pipeline goes on
\* to succeed or to fail.
C16_PipelinesIsolated ==
  [][\A d \in Ids :
       (pc[d] # "none" /\ pc'[d] # pc[d]) =>
         \A o \in Ids \ {d} :
           /\ RowOf(documents', o) = RowOf(documents, o)
           /\ RecordsOf(index', o) = RecordsOf(index, o)]_vars

C16_Witness ==
  \E d \in DOMAIN documents, o \in DOMAIN documents :
    /\ d # o
    /\ pc[d] = "done" /\ hist[d] = Path
    /\ RecordsOf(index, d) = {[id |-> d, document_id |-> d, content |-> "invoice"]}
    /\ pc[o] = "done" /\ exc[o].at = "index"
    /\ documents[o].status = FAILED /\ RecordsOf(index, o) = {}

\* C17: a pipeline whose load finds no row for its id returns at once: no row
\* is created, no status written, no OCR call and no index call made, no
\* exception raised; and it stays that way.
C17_AbortsSilently ==
  [][\A d \in Ids :
       /\ ( /\ pc[d] = "scheduled" /\ pc'[d] # "scheduled"
            /\ d \notin DOMAIN documents
            /\ exc'[d] = exc[d] ) =>
              /\ pc'[d] = "aborted"
              /\ running' = {}
              /\ UNCHANGED <<documents, index, hist, full_text, blobs>>
       /\ pc[d] = "aborted" =>
            /\ pc'[d] = "aborted"
            /\ exc'[d] = NoExc /\ full_text'[d] = None
            /\ hist'[d] = hist[d]
            /\ RowOf(documents', d) = RowOf(documents, d)
            /\ RecordsOf(index', d) = {}]_vars

C17_Witness ==
  \E d \in Ids :
    /\ pc[d] = "aborted" /\ upl[d].state = "ok" /\ invoked[d] = 1
    /\ d \notin DOMAIN documents
    /\ exc[d] = NoExc /\ full_text[d] = None /\ RecordsOf(index, d) = {}

\* the sequence s begins with the sequence p
StartsWith(s, p) == Len(p) <= Len(s) /\ SubSeq(s, 1, Len(p)) = p

C19_CompletedIsIndexed ==
  /\ \A d \in DOMAIN documents :
       documents[d].status = COMPLETED =>
         RecordsOf(index, d) =
           {[id |-> d, document_id |-> d, content |-> full_text[d]]}
  /\ (resp # NoResp /\ resp.kind = "search" /\ resp.failed = "none") =>
       \A d \in DOMAIN documents :
         (documents[d].status = COMPLETED /\ Matches(resp.q, full_text[d])) =>
           [document_id |-> d, status |-> COMPLETED] \in resp.results

C19_Witness ==
  /\ resp # NoResp /\ resp.kind = "search" /\ resp.failed = "none"
  /\ \E d \in DOMAIN documents :
       /\ documents[d].status = COMPLETED
       /\ Matches(resp.q, full_text[d])
       /\ [document_id |-> d, status |-> COMPLETED] \in resp.results

\* C20: a pipeline task that has ended (returned or raised; from then on
\* nothing writes the row) has left the row of its document in a terminal
\* status, COMPLETED or FAILED: no document whose pipeline was scheduled and
\* whose every call returned stays in PENDING or an in-progress status.
C20_EndsTerminal ==
  \A d \in Ids :
    (invoked[d] > 0 /\ Ended(d)) =>
      /\ d \in DOMAIN documents
      /\ documents[d].status \in {COMPLETED, FAILED}

====
